---------------------------- MODULE Spec2Model ----------------------------
(***************************************************************************)
(* Model of the NGSpice cross-corner batch runner:                         *)
(*   cross_corners.py            corner-only variant   (variant "corner")  *)
(*   cross_corners_with_temp.py  corner x temperature  (variant "temp")    *)
(* Text is modelled as TLA+ strings, character by character; Python's      *)
(* str and pathlib operations are the operators of the first sections.     *)
(* A temperature is a Python float; the model counts it in half degrees    *)
(* (the integer h stands for h/2 degrees), so 54 is 27.0 and 55 is 27.5.   *)
(***************************************************************************)
EXTENDS Integers, Sequences, FiniteSets, TLC

VARIABLES
    variant,        \* which module runs: "corner" or "temp"
    template_file,  \* argv: path of the template file
    file_text,      \* the template file on disk: <<content>>, NoFile if absent
    output_dir_arg, \* argv: <<--output-dir>>, NoArg if omitted
    corners,        \* StaticCornerProvider.corners
    temps,          \* StaticTemperatureProvider.temperatures (half degrees)
    pc,             \* position of the driver
    rc,             \* <<value returned by cli>>, NoRc until it returns
    loaded,         \* (template_text, filename, derived_output_dir) of _load_template
    output_dir,     \* output root chosen by run
    k,              \* index of the next subfolder / work item
    dirs,           \* directories that exist on disk
    files,          \* files on disk: path -> content
    called,         \* simulator invocations so far: <<spice_file, log_file>>
    trace,          \* operations performed so far, in order
    warnings,       \* messages logged at WARNING or ERROR level
    returncode,     \* exit status of the last simulator process (never read)
    call            \* a direct call of one function: arguments and result

vars == <<variant, template_file, file_text, output_dir_arg, corners, temps,
          pc, rc, loaded, output_dir, k, dirs, files, called, trace,
          warnings, returncode, call>>

driverVars == <<variant, template_file, file_text, output_dir_arg, corners,
                temps, pc, rc, loaded, output_dir, k, dirs, files, called,
                trace, warnings, returncode>>

\* an optional value is a sequence: <<>> for None or absent, <<v>> for v
NoFile == <<>>
NoArg == <<>>
NoRc == <<>>
NoCall == [fn |-> "none"]

----------------------------------------------------------------------------
(* Python str operations *)

Char(s, i) == SubSeq(s, i, i)

Drop(s, n) == SubSeq(s, n + 1, Len(s))

StartsWith(s, p) == Len(p) <= Len(s) /\ SubSeq(s, 1, Len(p)) = p

\* s.find(sub) + 1: the first position where sub occurs in s, 0 if none
Find(s, sub) ==
    LET P == {i \in 1..(Len(s) - Len(sub) + 1) : SubSeq(s, i, i + Len(sub) - 1) = sub}
    IN IF P = {} THEN 0 ELSE CHOOSE i \in P : \A j \in P : i <= j

\* sub in s
Contains(s, sub) == Find(s, sub) # 0

\* s.rfind(sub) + 1
RFind(s, sub) ==
    LET P == {i \in 1..(Len(s) - Len(sub) + 1) : SubSeq(s, i, i + Len(sub) - 1) = sub}
    IN IF P = {} THEN 0 ELSE CHOOSE i \in P : \A j \in P : i >= j

\* s.replace(old, new) for a non-empty old: leftmost occurrences, not overlapping,
\* the replaced text is not scanned again
RECURSIVE Replace(_, _, _)
Replace(s, old, new) ==
    LET p == Find(s, old)
    IN IF p = 0 THEN s
       ELSE SubSeq(s, 1, p - 1) \o new \o Replace(Drop(s, p + Len(old) - 1), old, new)

IsSpace(c) == c \in {" ", "\t", "\n", "\r"}

RECURSIVE LStrip(_)
LStrip(s) == IF Len(s) > 0 /\ IsSpace(Char(s, 1)) THEN LStrip(Drop(s, 1)) ELSE s

RECURSIVE RStrip(_)
RStrip(s) ==
    IF Len(s) > 0 /\ IsSpace(Char(s, Len(s))) THEN RStrip(SubSeq(s, 1, Len(s) - 1)) ELSE s

\* s.strip()
Strip(s) == LStrip(RStrip(s))

\* s.splitlines(): the lines without their line ends, no empty last line
RECURSIVE SplitLines(_)
SplitLines(s) ==
    IF Len(s) = 0 THEN <<>>
    ELSE LET p == Find(s, "\n")
         IN IF p = 0 THEN <<s>>
            ELSE <<SubSeq(s, 1, p - 1)>> \o SplitLines(Drop(s, p))

\* s.split(sep, 1): one or two parts
SplitOnce(s, sep) ==
    LET p == Find(s, sep)
    IN IF p = 0 THEN <<s>>
       ELSE <<SubSeq(s, 1, p - 1), Drop(s, p + Len(sep) - 1)>>

Digit(d) == SubSeq("0123456789", d + 1, d + 1)

\* str(n) for n >= 0
RECURSIVE Dec(_)
Dec(n) == IF n < 10 THEN Digit(n) ELSE Dec(n \div 10) \o Digit(n % 10)

\* str(n), f"{n}"
Str(n) == IF n < 0 THEN "-" \o Dec(-n) ELSE Dec(n)

Abs(n) == IF n < 0 THEN -n ELSE n

\* int(temp) of a float given in half degrees: truncation toward zero
IntOf(h) == IF h < 0 THEN -((-h) \div 2) ELSE h \div 2


----------------------------------------------------------------------------
(* pathlib.Path operations, on normalised path strings *)

\* the working directory of the process
Cwd == "/w"

\* str(Path(a) / b)
PathJoin(a, b) ==
    IF StartsWith(b, "/") THEN b
    ELSE IF a = "." THEN b
    ELSE IF a = "/" THEN "/" \o b
    ELSE a \o "/" \o b

\* str(Path(p).parent)
Parent(p) ==
    LET i == RFind(p, "/")
    IN IF i = 0 THEN "." ELSE IF i = 1 THEN "/" ELSE SubSeq(p, 1, i - 1)

\* Path(p).name
Name(p) == Drop(p, RFind(p, "/"))

\* Path(p).stem: the name without its last suffix
Stem(p) ==
    LET n == Name(p)
        i == RFind(n, ".")
    IN IF i <= 1 \/ i = Len(n) THEN n ELSE SubSeq(n, 1, i - 1)

\* Path(p).resolve().as_posix(): absolute; a relative path is taken from Cwd
Resolve(p) ==
    IF StartsWith(p, "/") THEN p
    ELSE IF p = "." THEN Cwd
    ELSE PathJoin(Cwd, p)

\* the directories mkdir(parents=True) makes sure exist: p and its ancestors
RECURSIVE WithParents(_)
WithParents(p) == IF p = "/" \/ p = "." THEN {} ELSE {p} \cup WithParents(Parent(p))

----------------------------------------------------------------------------
(* SpiceTemplateProcessor *)

\* _temp_tag without the "m" that marks a negative temperature
_temp_tag_unsigned(temp) == Str(Abs(IntOf(temp))) \o "C"

\* cross_corners_with_temp.py: _temp_tag(temp)
_temp_tag(temp) ==
    LET t == IntOf(temp)
    IN IF t < 0 THEN "m" \o Str(Abs(t)) \o "C" ELSE Str(t) \o "C"

\* the three entries of the replacements dict, in insertion order
Replacements(new_filename, out_dir) ==
    << <<new_filename \o ".raw",
         Resolve(PathJoin(PathJoin(out_dir, "raw"), new_filename \o ".raw"))>>,
       <<new_filename \o ".csv",
         Resolve(PathJoin(PathJoin(out_dir, "csv"), new_filename \o ".csv"))>>,
       <<new_filename \o ".txt",
         Resolve(PathJoin(PathJoin(out_dir, "txt"), new_filename \o ".txt"))>> >>

\* for old, new in replacements.items(): data = data.replace(old, new)
RECURSIVE ReplaceAll(_, _)
ReplaceAll(data, reps) ==
    IF reps = <<>> THEN data
    ELSE ReplaceAll(Replace(data, reps[1][1], reps[1][2]), Tail(reps))

\* cross_corners.py: data = template.replace("tt", corner)
CornerSubstitution(template, corner) == Replace(template, "tt", corner)

\* cross_corners.py (and the loop body of main.py): generate_content
generate_content(template, filename, corner, out_dir) ==
    LET new_filename == filename \o "_" \o corner
        data1 == CornerSubstitution(template, corner)
        data2 == Replace(data1, filename, new_filename)
    IN ReplaceAll(data2, Replacements(new_filename, out_dir))

\* cross_corners_with_temp.py: the {CORNER} and {TEMP} token replacement
TokenSubstitution(template, corner, temp) ==
    Replace(Replace(template, "{CORNER}", corner), "{TEMP}", Str(IntOf(temp)))

\* cross_corners_with_temp.py: generate_content
generate_content_with_temp(template, filename, corner, temp, out_dir) ==
    LET new_filename == filename \o "_" \o corner \o "_" \o _temp_tag(temp)
        data1 == TokenSubstitution(template, corner, temp)
        data2 == Replace(data1, filename, new_filename)
    IN ReplaceAll(data2, Replacements(new_filename, out_dir))

----------------------------------------------------------------------------
(* FolderManager, the run enumeration, _load_template *)

\* create_all with one folder name mistyped
REQUIRED_SUBFOLDERS_typo == <<"raw", "csv", "txt", "log", "spice">>

REQUIRED_SUBFOLDERS == <<"raw", "csv", "txt", "logs", "spice">>

\* the two loops exchanged: temperatures outside, corners inside
RECURSIVE product_swapped(_, _)
product_swapped(cs, ts) ==
    IF ts = <<>> THEN <<>>
    ELSE [j \in 1..Len(cs) |-> <<cs[j], ts[1]>>] \o product_swapped(cs, Tail(ts))

\* itertools.product(corners, temps) as a list
RECURSIVE product(_, _)
product(cs, ts) ==
    IF cs = <<>> THEN <<>>
    ELSE [j \in 1..Len(ts) |-> <<cs[1], ts[j]>>] \o product(Tail(cs), ts)

\* the work items of run: the corners alone in cross_corners.py
Runs(v, cs, ts) == IF v = "temp" THEN product(cs, ts) ELSE [j \in 1..Len(cs) |-> <<cs[j]>>]

\* run_tag of a work item (cross_corners.py uses the corner itself)
RunTag(v, item) == IF v = "temp" THEN item[1] \o "_" \o _temp_tag(item[2]) ELSE item[1]

SpicePath(root, filename, tag) ==
    PathJoin(PathJoin(root, "spice"), filename \o "_" \o tag \o ".spice")

LogPath(root, filename, tag) ==
    PathJoin(PathJoin(root, "logs"), filename \o "_" \o tag \o ".log")

\* while first.startswith("*"): first = first[1:].strip()
RECURSIVE StripStars(_)
StripStars(first) ==
    IF StartsWith(first, "*") THEN StripStars(Strip(Drop(first, 1))) ELSE first

\* cross_corners.py: _load_template
load_template_corner(path, content) ==
    LET lines == SplitLines(content)
    IN IF lines = <<>> THEN [raised |-> "ValueError: Template file is empty"]
       ELSE IF ~Contains(lines[1], "sch_path:")
       THEN [raised |-> "ValueError: First line must contain 'sch_path: <path>'"]
       ELSE LET parts == SplitOnce(lines[1], "sch_path: ")
            IN IF Len(parts) < 2 THEN [raised |-> "IndexError"]
               ELSE [raised |-> "", content |-> content, filename |-> Stem(path),
                     derived |-> Parent(Strip(parts[2])), warned |-> FALSE]

\* the fallback taken silently, with the working directory as output root
load_template_temp_silent(path, content) ==
    LET lines == SplitLines(content)
    IN IF lines = <<>> THEN [raised |-> "ValueError: Template file is empty"]
       ELSE LET first == StripStars(Strip(lines[1]))
            IN IF StartsWith(first, "sch_path:")
               THEN [raised |-> "", content |-> content, filename |-> Stem(path),
                     derived |-> Parent(Strip(SplitOnce(first, "sch_path:")[2])),
                     warned |-> FALSE]
               ELSE [raised |-> "", content |-> content, filename |-> Stem(path),
                     derived |-> ".", warned |-> FALSE]

\* cross_corners_with_temp.py: _load_template
load_template_temp(path, content) ==
    LET lines == SplitLines(content)
    IN IF lines = <<>> THEN [raised |-> "ValueError: Template file is empty"]
       ELSE LET first == StripStars(Strip(lines[1]))
            IN IF StartsWith(first, "sch_path:")
               THEN [raised |-> "", content |-> content, filename |-> Stem(path),
                     derived |-> Parent(Strip(SplitOnce(first, "sch_path:")[2])),
                     warned |-> FALSE]
               ELSE [raised |-> "", content |-> content, filename |-> Stem(path),
                     derived |-> PathJoin(Parent(path), "SCH_Results"),
                     warned |-> TRUE]

_load_template(v, path, content) ==
    IF v = "temp" THEN load_template_temp(path, content)
    ELSE load_template_corner(path, content)

----------------------------------------------------------------------------
(* Inputs of the batch driver *)

\* longest corner list and longest temperature list of a batch
MaxCorners == 2
MaxTemps == 2

CornerPool == {"ss_ll_mm", "sf_lh_mm", "ff_hh_mm"}

\* -40.0, 27.0 and 27.5 degrees
TempPool == {-80, 54, 55}

\* the lists of pairwise distinct members of S, of length lo..hi
DistinctSeqs(S, lo, hi) ==
    UNION {{q \in [1..n -> S] : \A a, b \in 1..n : a # b => q[a] # q[b]} : n \in lo..hi}

TemplateFile == "/d/case.spice"

\* the template file as given on the command line: absolute, or relative to
\* the working directory (its directory only enters the output root when the
\* header has no marker, so the relative path is tried on that template)
TemplateFiles == {TemplateFile, "case.spice"}

TemplateBody ==
    "* TEMPLATE tt\n.include tt_model.spice\n.lib m.lib {CORNER}\n.temp {TEMP}\n"
    \o "write case.raw\nwrdata case.csv v(a) v(b)\nprint v(a) > case.txt\n"

\* a template whose first line has no sch_path: marker
NoMarkerText == "* case\n" \o TemplateBody

\* template files: header with marker, marker without blank, no marker, empty file
TemplateTexts ==
    {"** sch_path: /p/case.sch\n" \o TemplateBody,
     "**sch_path:/p/case.sch\n" \o TemplateBody,
     NoMarkerText,
     ""}

OutputDirArgs == {NoArg, <<"/tmp/out">>}

BaseDirs == {"/d", "/tmp", "/w", "/p"}

\* a disk on which an earlier batch has already run
UsedDirs ==
    BaseDirs \cup UNION {WithParents(PathJoin(root, sub)) :
                           root \in {"/tmp/out", "/p", "/d/SCH_Results"},
                           sub \in {"raw", "csv", "txt", "logs", "spice"}}

UsedFiles == [p \in {"/tmp/out/raw/old.raw", "/p/raw/old.raw"} |-> "old"]

NoFiles == [p \in {} |-> ""]

\* what subprocess.run does: the exit status of ngspice (0, an error status,
\* killed by a signal), or FileNotFoundError when ngspice cannot be started
SimOutcomes == {"0", "1", "-11", "FileNotFoundError"}

Put(f, path, content) ==
    [p \in DOMAIN f \cup {path} |-> IF p = path THEN content ELSE f[p]]

----------------------------------------------------------------------------
(* The batch driver: cli, CrossCornerProcessor.run, NgSpiceSimulator.run *)

Init ==
    /\ variant \in {"corner", "temp"}
    /\ file_text \in {NoFile} \cup {<<t>> : t \in TemplateTexts}
    /\ template_file \in IF file_text = <<NoMarkerText>> THEN TemplateFiles
                          ELSE {TemplateFile}
    /\ output_dir_arg \in OutputDirArgs
    /\ corners \in DistinctSeqs(CornerPool, 0, MaxCorners)
    /\ temps \in IF variant = "temp" THEN DistinctSeqs(TempPool, 1, MaxTemps) ELSE {<<>>}
    /\ pc = "cli"
    /\ rc = NoRc
    /\ loaded = <<>>
    /\ output_dir = ""
    /\ k = 0
    /\ \E used \in BOOLEAN :
          /\ dirs = IF used THEN UsedDirs ELSE BaseDirs
          /\ files = IF used THEN UsedFiles ELSE NoFiles
    /\ called = <<>>
    /\ trace = <<>>
    /\ warnings = <<>>
    /\ returncode = ""
    /\ call = NoCall

\* cli up to processor.run: exit code 2 when the template file does not exist
Cli ==
    /\ pc = "cli"
    /\ IF file_text = NoFile
       THEN /\ warnings' = Append(warnings, "ERROR: Template file not found")
            /\ rc' = <<2>>
            /\ pc' = "returned"
       ELSE /\ pc' = "load"
            /\ UNCHANGED <<warnings, rc>>
    /\ UNCHANGED <<variant, template_file, file_text, output_dir_arg, corners, temps,
                   loaded, output_dir, k, dirs, files, called, trace, returncode, call>>

\* run: _load_template and the choice of the output root
LoadTemplate ==
    /\ pc = "load"
    /\ LET r == _load_template(variant, template_file, file_text[1])
       IN IF r.raised # ""
          THEN /\ pc' = "raised"
               /\ UNCHANGED <<loaded, output_dir, k, warnings>>
          ELSE /\ loaded' = r
               /\ output_dir' = IF output_dir_arg # NoArg THEN output_dir_arg[1] ELSE r.derived
               /\ warnings' = IF r.warned
                              THEN Append(warnings, "WARNING: No 'sch_path:' found in template header")
                              ELSE warnings
               /\ k' = 1
               /\ pc' = "mkdir"
    /\ UNCHANGED <<variant, template_file, file_text, output_dir_arg, corners, temps,
                   rc, dirs, files, called, trace, returncode, call>>

\* FolderManager.create_all: one mkdir(parents=True, exist_ok=True) per subfolder
MkDir ==
    /\ pc = "mkdir"
    /\ LET p == Resolve(PathJoin(output_dir, REQUIRED_SUBFOLDERS[k]))
       IN /\ dirs' = dirs \cup WithParents(p)
          /\ trace' = Append(trace, <<"mkdir", p>>)
    /\ IF k = Len(REQUIRED_SUBFOLDERS)
       THEN pc' = "loop" /\ k' = 1
       ELSE pc' = "mkdir" /\ k' = k + 1
    /\ UNCHANGED <<variant, template_file, file_text, output_dir_arg, corners, temps,
                   rc, loaded, output_dir, files, called, warnings, returncode, call>>

\* the loop carrying the deck of the previous work item on as its template
DeckContent_carry(v, item, text, filename, root) ==
    LET carried == IF k > 1 THEN files[trace[Len(trace) - 1][2]] ELSE text
    IN IF v = "temp"
       THEN generate_content_with_temp(carried, filename, item[1], item[2], root)
       ELSE generate_content(carried, filename, item[1], root)

\* the content run writes for a work item
DeckContent(v, item, text, filename, root) ==
    IF v = "temp"
    THEN generate_content_with_temp(text, filename, item[1], item[2], root)
    ELSE generate_content(text, filename, item[1], root)

\* run, loop body: generate_content and spice_path.write_text(content)
GenerateDeck ==
    /\ pc = "loop"
    /\ k <= Len(Runs(variant, corners, temps))
    /\ LET item == Runs(variant, corners, temps)[k]
           spice_path == SpicePath(output_dir, loaded.filename, RunTag(variant, item))
           content == DeckContent(variant, item, loaded.content, loaded.filename, output_dir)
       IN IF Parent(Resolve(spice_path)) \notin dirs
          THEN /\ pc' = "raised"
               /\ UNCHANGED <<files, trace>>
          ELSE /\ files' = Put(files, Resolve(spice_path), content)
               /\ trace' = Append(trace, <<"write", Resolve(spice_path)>>)
               /\ pc' = "simulate"
    /\ UNCHANGED <<variant, template_file, file_text, output_dir_arg, corners, temps,
                   rc, loaded, output_dir, k, dirs, called, warnings, returncode, call>>

\* run, loop body: self.simulator.run(spice_path, log_path) with NgSpiceSimulator
RunSimulator ==
    /\ pc = "simulate"
    /\ \E outcome \in SimOutcomes :
          LET item == Runs(variant, corners, temps)[k]
              spice_path == SpicePath(output_dir, loaded.filename, RunTag(variant, item))
              log_path == LogPath(output_dir, loaded.filename, RunTag(variant, item))
          IN /\ called' = Append(called, <<spice_path, log_path>>)
             /\ dirs' = dirs \cup WithParents(Parent(Resolve(log_path)))
             /\ trace' = Append(trace, <<"run", Resolve(spice_path), Resolve(log_path)>>)
             /\ IF outcome = "FileNotFoundError"
                THEN /\ files' = Put(files, Resolve(log_path), "")
                     /\ pc' = "raised"
                     /\ UNCHANGED <<k, returncode>>
                ELSE /\ files' = Put(files, Resolve(log_path), "ngspice output")
                     /\ returncode' = outcome
                     /\ k' = k + 1
                     /\ pc' = "loop"
    /\ UNCHANGED <<variant, template_file, file_text, output_dir_arg, corners, temps,
                   rc, loaded, output_dir, warnings, call>>

\* cli handing on the exit status of the last simulator process
Finish_propagating ==
    /\ pc = "loop"
    /\ k > Len(Runs(variant, corners, temps))
    /\ rc' = <<IF returncode \in {"", "0"} THEN 0 ELSE 1>>
    /\ pc' = "returned"
    /\ UNCHANGED <<variant, template_file, file_text, output_dir_arg, corners, temps,
                   loaded, output_dir, k, dirs, files, called, trace, warnings,
                   returncode, call>>

\* the loop is exhausted: run returns and cli returns 0
Finish ==
    /\ pc = "loop"
    /\ k > Len(Runs(variant, corners, temps))
    /\ rc' = <<0>>
    /\ pc' = "returned"
    /\ UNCHANGED <<variant, template_file, file_text, output_dir_arg, corners, temps,
                   loaded, output_dir, k, dirs, files, called, trace, warnings,
                   returncode, call>>

Next ==
    \/ Cli
    \/ LoadTemplate
    \/ MkDir
    \/ GenerateDeck
    \/ RunSimulator
    \/ Finish

Spec == Init /\ [][Next]_vars

----------------------------------------------------------------------------
(* Properties of the batch driver *)

\* N * M: the number of work items of the batch (M = 1 in cross_corners.py)
ItemCount == Len(corners) * (IF variant = "temp" THEN Len(temps) ELSE 1)

\* the n-th work item in nested order: corners outside, temperatures inside
NestedItem(n) ==
    IF variant = "temp"
    THEN <<corners[((n - 1) \div Len(temps)) + 1], temps[((n - 1) % Len(temps)) + 1]>>
    ELSE <<corners[n]>>

\* the output root the claims name: the override if given, else the header's
Root == IF output_dir_arg # NoArg THEN output_dir_arg[1] ELSE loaded.derived

\* <base>_<runTag> of the n-th work item, from the inputs alone
ItemStem(n) ==
    IF variant = "temp"
    THEN Stem(template_file) \o "_" \o NestedItem(n)[1] \o "_" \o _temp_tag(NestedItem(n)[2])
    ELSE Stem(template_file) \o "_" \o NestedItem(n)[1]

ItemSpice(n) == Root \o "/spice/" \o ItemStem(n) \o ".spice"

ItemLog(n) == Root \o "/logs/" \o ItemStem(n) \o ".log"

Writes == {n \in 1..Len(trace) : trace[n][1] = "write"}

DeckFiles == {trace[n][2] : n \in Writes}

BatchDone == pc = "returned" /\ rc = <<0>>

\* C1 (as claimed): a batch that runs to its end has written exactly N*M deck
\* files and invoked the simulator exactly N*M times, the n-th invocation with
\* the deck path and log path of the n-th work item under the output root.
C1_OneDeckAndRunPerItem ==
    BatchDone =>
        /\ Cardinality(DeckFiles) = ItemCount
        /\ Len(called) = ItemCount
        /\ \A n \in 1..Len(called) : called[n] = <<ItemSpice(n), ItemLog(n)>>

\* C2: the work items are enumerated, and processed, in nested order (every
\* temperature for corner 1, then every temperature for corner 2, ...), the
\* enumeration has |corners| * |temperatures| items, and the n-th simulator
\* invocation is the one of the n-th item of that order.
C2_NestedOrder ==
    /\ Len(Runs(variant, corners, temps)) = ItemCount
    /\ \A n \in 1..ItemCount : Runs(variant, corners, temps)[n] = NestedItem(n)
    /\ \A n \in 1..Len(called) : called[n] = <<ItemSpice(n), ItemLog(n)>>
    /\ pc = "simulate" => trace[Len(trace)] = <<"write", Resolve(ItemSpice(k))>>

C2_Witness ==
    /\ BatchDone
    /\ variant = "temp"
    /\ Len(corners) = 2
    /\ Len(temps) = 2
    /\ Len(called) = 4

\* C3: without the template file cli returns 2 and has created no directory,
\* written no file and invoked no simulator; with the file, a batch that runs
\* to its end returns 0 whatever the simulator processes returned.
C3_ExitCodes ==
    /\ file_text = NoFile =>
          /\ pc \in {"cli", "returned"}
          /\ pc = "returned" => rc = <<2>>
          /\ trace = <<>> /\ called = <<>>
          /\ dirs \in {BaseDirs, UsedDirs} /\ files \in {NoFiles, UsedFiles}
    /\ (file_text # NoFile /\ pc = "returned") =>
          /\ rc = <<0>>
          /\ k = ItemCount + 1
    /\ rc # NoRc => pc = "returned"

C3_Witness ==
    /\ BatchDone
    /\ returncode = "1"
    /\ Len(called) >= 2

\* the other case of C3: cli has returned 2 for a missing template file
C3_WitnessMissing == file_text = NoFile /\ rc = <<2>>

FiveFolders == {"raw", "csv", "txt", "logs", "spice"}

FolderPath(sub) == Resolve(output_dir \o "/" \o sub)

\* C4: whenever a deck is about to be written, has been written, or a simulator
\* has been invoked, raw, csv, txt, logs and spice exist under the output root
\* and each was ensured by create_all before the first write and the first
\* invocation; ensuring a folder that already exists changes neither the
\* directories nor the files on disk, and does not fail.
C4_FoldersFirst ==
    /\ [](/\ (pc \in {"loop", "simulate"} \/ called # <<>> \/ Writes # {}) =>
                 \A sub \in FiveFolders : FolderPath(sub) \in dirs
          /\ \A n \in 1..Len(trace) :
                 trace[n][1] \in {"write", "run"} =>
                     \A sub \in FiveFolders :
                         \E m \in 1..(n - 1) : trace[m] = <<"mkdir", FolderPath(sub)>>)
    /\ [][(pc = "mkdir" /\ FolderPath(REQUIRED_SUBFOLDERS[k]) \in dirs) =>
              (dirs' = dirs /\ files' = files /\ pc' # "raised")]_vars

C4_Witness ==
    /\ BatchDone
    /\ Len(called) >= 1
    /\ "/tmp/out/raw/old.raw" \in DOMAIN files
    /\ output_dir = "/tmp/out"

\* C6 (as claimed): with pairwise distinct corners and pairwise distinct
\* temperatures, two different work items never have the same run tag, so no
\* deck path and no log path is used twice and no deck is overwritten.
C6_RunTagsUnique ==
    /\ \A a, b \in 1..Len(called) : a # b => called[a][1] # called[b][1] /\ called[a][2] # called[b][2]
    /\ \A a, b \in Writes : a # b => trace[a][2] # trace[b][2]
    /\ \A a, b \in 1..(IF pc \in {"simulate"} THEN k ELSE 0) :
           a # b => RunTag(variant, Runs(variant, corners, temps)[a])
                        # RunTag(variant, Runs(variant, corners, temps)[b])

----------------------------------------------------------------------------
(* Direct calls of _temp_tag and generate_content, as a unit test makes them *)

\* the driver does not run during a direct call
IdleDriver ==
    /\ variant = "corner"
    /\ template_file = ""
    /\ file_text = NoFile
    /\ output_dir_arg = NoArg
    /\ corners = <<>>
    /\ temps = <<>>
    /\ pc = "idle"
    /\ rc = NoRc
    /\ loaded = <<>>
    /\ output_dir = ""
    /\ k = 0
    /\ dirs = BaseDirs
    /\ files = NoFiles
    /\ called = <<>>
    /\ trace = <<>>
    /\ warnings = <<>>
    /\ returncode = ""

InitCall == IdleDriver /\ call = NoCall

\* largest temperature, in degrees, given to _temp_tag
MaxTemp == 45

\* every half degree from -MaxTemp to MaxTemp
TagTemps == (-2 * MaxTemp)..(2 * MaxTemp)

\* two calls of _temp_tag, one after the other
CallTempTag ==
    /\ \E t \in TagTemps :
          IF call = NoCall
          THEN call' = [fn |-> "_temp_tag", args |-> <<t>>, rets |-> <<_temp_tag(t)>>]
          ELSE /\ call.fn = "_temp_tag"
               /\ Len(call.args) < 2
               /\ call' = [call EXCEPT !.args = Append(@, t),
                                       !.rets = Append(@, _temp_tag(t))]
    /\ UNCHANGED driverVars

NextTag == CallTempTag

SpecTag == InitCall /\ [][NextTag]_vars

\* template lines a call of generate_content is tried on
NetLines == {"R1 in out 1k\n", "R1 tt1 0 1k\n"}

IncludeLines == {".include tt_model.spice\n", ".lib m.lib {CORNER}\n"}

TempLines == {"", ".temp 27\n", ".temp {TEMP}\n"}

\* the write, wrdata and print statements: naming <base>.<ext>, another file,
\* or <base>.<ext> behind a directory
RedirectLines(filename) ==
    {"write " \o f \o ".raw\nwrdata " \o f \o ".csv v(a) v(b)\nprint v(a) > " \o f \o ".txt\n" :
        f \in {filename, "out", "old/" \o filename}}

GenTemplates(filename) ==
    {"** sch_path: /p/x.sch\n* TEMPLATE\n" \o net \o inc \o tmp \o red \o ".end\n" :
        net \in NetLines, inc \in IncludeLines, tmp \in TempLines,
        red \in RedirectLines(filename)}

GenFilenames == {"case", "butter"}

GenCorners == {"ss_ll_mm", "ff"}

GenOutputDirs == {"/tmp/out", "out"}

\* SpiceTemplateProcessor().generate_content(...) of cross_corners.py
CallGenerateContent ==
    /\ call = NoCall
    /\ \E filename \in GenFilenames, corner \in GenCorners, out \in GenOutputDirs :
          \E template \in GenTemplates(filename) :
              call' = [fn |-> "generate_content", template |-> template,
                       filename |-> filename, corner |-> corner, temp |-> 0,
                       output_dir |-> out,
                       ret |-> generate_content(template, filename, corner, out)]
    /\ UNCHANGED driverVars

\* SpiceTemplateProcessor().generate_content(...) of cross_corners_with_temp.py
CallGenerateContentWithTemp ==
    /\ call = NoCall
    /\ \E filename \in GenFilenames, corner \in GenCorners, out \in GenOutputDirs,
          temp \in TempPool :
          \E template \in GenTemplates(filename) :
              call' = [fn |-> "generate_content_with_temp", template |-> template,
                       filename |-> filename, corner |-> corner, temp |-> temp,
                       output_dir |-> out,
                       ret |-> generate_content_with_temp(template, filename, corner, temp, out)]
    /\ UNCHANGED driverVars

NextGen ==
    \/ CallGenerateContent
    \/ CallGenerateContentWithTemp

SpecGen == InitCall /\ [][NextGen]_vars

----------------------------------------------------------------------------
(* Properties of _temp_tag *)

DigitValue(c) == CHOOSE d \in 0..9 : Digit(d) = c

IsNumeral(s) ==
    /\ Len(s) >= 1
    /\ \A n \in 1..Len(s) : \E d \in 0..9 : Char(s, n) = Digit(d)
    /\ Len(s) = 1 \/ Char(s, 1) # "0"

\* the number a decimal numeral denotes
RECURSIVE NumeralValue(_)
NumeralValue(s) ==
    IF Len(s) = 0 THEN 0
    ELSE 10 * NumeralValue(SubSeq(s, 1, Len(s) - 1)) + DigitValue(Char(s, Len(s)))

\* the calls made with an integer temperature (a whole number of degrees)
IntegerCalls == {n \in 1..Len(call.args) : call.args[n] % 2 = 0}

\* C5: for an integer temperature t, _temp_tag(t) is "m", the decimal numeral
\* of |t| and "C" when t < 0, and the decimal numeral of t and "C" when
\* t >= 0 (-40 gives m40C, 27 gives 27C, 0 gives 0C); two calls with distinct
\* integer temperatures return distinct tags.
C5_TempTag ==
    call.fn = "_temp_tag" =>
        /\ \A n \in IntegerCalls :
              LET t == call.args[n] \div 2
                  r == call.rets[n]
                  numeral == IF t < 0 THEN SubSeq(r, 2, Len(r) - 1)
                                      ELSE SubSeq(r, 1, Len(r) - 1)
              IN /\ Char(r, Len(r)) = "C"
                 /\ (t < 0) = (Char(r, 1) = "m")
                 /\ IsNumeral(numeral)
                 /\ NumeralValue(numeral) = (IF t < 0 THEN -t ELSE t)
                 /\ t = -40 => r = "m40C"
                 /\ t = 27 => r = "27C"
                 /\ t = 0 => r = "0C"
        /\ \A a, b \in IntegerCalls :
              call.rets[a] = call.rets[b] => call.args[a] = call.args[b]

C5_Witness ==
    /\ call.fn = "_temp_tag"
    /\ call.args = <<-80, 80>>
    /\ call.rets = <<"m40C", "40C">>

----------------------------------------------------------------------------
(* Properties of generate_content *)

IsGenerateCall == call.fn \in {"generate_content", "generate_content_with_temp"}

\* line.split(): the words of a line
RECURSIVE SplitTokens(_)
SplitTokens(line) ==
    LET l == LStrip(line)
        p == Find(l, " ")
    IN IF Len(l) = 0 THEN <<>>
       ELSE IF p = 0 THEN <<l>>
       ELSE <<SubSeq(l, 1, p - 1)>> \o SplitTokens(Drop(l, p))

FirstToken(line) == IF SplitTokens(line) = <<>> THEN "" ELSE SplitTokens(line)[1]

\* the output root as an absolute path
AbsRoot(out) == IF Char(out, 1) = "/" THEN out ELSE "/w/" \o out

\* the stem of the deck file the driver writes for the work item of the call
CallStem ==
    Stem(SpicePath(call.output_dir, call.filename,
                   RunTag(IF call.fn = "generate_content_with_temp" THEN "temp" ELSE "corner",
                          <<call.corner, call.temp>>)))

\* <outputDir>/<ext>/<base>_<runTag>.<ext>
ResultFile(ext) == AbsRoot(call.output_dir) \o "/" \o ext \o "/" \o CallStem \o "." \o ext

Extensions == {"raw", "csv", "txt"}

\* C7 (as claimed): for a template that contains <base>.raw, <base>.csv and
\* <base>.txt, the returned text contains the corner and the three resolved
\* paths <outputDir>/<ext>/<base>_<runTag>.<ext>, with the stem of the deck file.
C7_ResolvedPaths ==
    (/\ IsGenerateCall
     /\ \A ext \in Extensions : Contains(call.template, call.filename \o "." \o ext)) =>
        /\ Contains(call.ret, call.corner)
        /\ \A ext \in Extensions : Contains(call.ret, ResultFile(ext))

IsIncludeLine(line) == FirstToken(line) \in {".include", ".lib", ".model"}

IsTempLine(line) == FirstToken(line) = ".temp"

IsRedirectLine(line) == FirstToken(line) \in {"write", "wrdata", "print"}

\* C8 (as claimed): a template line that is no include/model directive, no
\* temperature directive, no write/wrdata/print statement and does not contain
\* the base name is found unchanged, at the same position, in the returned text.
C8_OtherLinesUntouched ==
    IsGenerateCall =>
        LET tl == SplitLines(call.template)
            rl == SplitLines(call.ret)
        IN /\ Len(rl) = Len(tl)
           /\ \A n \in 1..Len(tl) :
                 (/\ ~IsIncludeLine(tl[n])
                  /\ ~IsTempLine(tl[n])
                  /\ ~IsRedirectLine(tl[n])
                  /\ ~Contains(tl[n], call.filename)) => rl[n] = tl[n]

\* the position of the path argument among the words of a redirection statement
PathIndex(tokens) ==
    IF tokens[1] = "print"
    THEN (CHOOSE n \in 1..Len(tokens) : tokens[n] = ">") + 1
    ELSE 2

ExtOf(keyword) == IF keyword = "write" THEN "raw" ELSE IF keyword = "wrdata" THEN "csv" ELSE "txt"

\* C9 (as claimed): in a write, wrdata or print statement the whole path
\* argument becomes <outputDir>/raw|csv|txt/<runName>.<ext>, and the keyword
\* and the signal list stay as they were.
C9_PathArgumentReplaced ==
    IsGenerateCall =>
        LET tl == SplitLines(call.template)
            rl == SplitLines(call.ret)
        IN /\ Len(rl) = Len(tl)
           /\ \A n \in 1..Len(tl) :
                 IsRedirectLine(tl[n]) =>
                     LET tokens == SplitTokens(tl[n])
                     IN SplitTokens(rl[n]) =
                            [tokens EXCEPT ![PathIndex(tokens)] = ResultFile(ExtOf(tokens[1]))]

\* C10 (as claimed): a template line whose first word is .temp comes back with
\* int(T) as its argument, whatever number it carried, the rest of the line
\* as it was and the number of lines unchanged.
C10_TempDirectiveRewritten ==
    call.fn = "generate_content_with_temp" =>
        LET tl == SplitLines(call.template)
            rl == SplitLines(call.ret)
        IN /\ Len(rl) = Len(tl)
           /\ \A n \in 1..Len(tl) :
                 IsTempLine(tl[n]) =>
                     SplitTokens(rl[n]) =
                         [SplitTokens(tl[n]) EXCEPT ![2] = Str(IntOf(call.temp))]

----------------------------------------------------------------------------
(* Properties of the batch driver: missing header marker, simulator failures,
   sequential execution *)

\* the first line of a non-empty template file
FirstLine ==
    IF Contains(file_text[1], "\n")
    THEN SubSeq(file_text[1], 1, Find(file_text[1], "\n") - 1)
    ELSE file_text[1]

\* a non-empty template whose first line lacks the sch_path: marker, run
\* without --output-dir
MarkerMissing ==
    /\ file_text # NoFile
    /\ file_text[1] # ""
    /\ ~Contains(FirstLine, "sch_path:")
    /\ output_dir_arg = NoArg

\* <template-directory>/SCH_Results
FallbackRoot ==
    IF Contains(template_file, "/")
    THEN SubSeq(template_file, 1, RFind(template_file, "/")) \o "SCH_Results"
    ELSE "SCH_Results"

\* the paths that mkdir, write and run events have touched
TouchedPaths ==
    {trace[n][2] : n \in 1..Len(trace)}
        \cup {trace[n][3] : n \in {m \in 1..Len(trace) : trace[m][1] = "run"}}

IsWarning(msg) == StartsWith(msg, "WARNING")

\* C11: for a non-empty template without the sch_path: marker and without an
\* output-dir override, the driver either raises before it has created a
\* directory, written a deck or invoked the simulator, or it has logged a
\* warning and works under <template-directory>/SCH_Results; nothing is touched
\* on disk, in the working directory or elsewhere, unless that warning was logged.
C11_MissingMarker ==
    MarkerMissing =>
        /\ loaded = <<>> =>
              /\ pc \in {"cli", "load", "raised"}
              /\ trace = <<>> /\ called = <<>>
              /\ dirs \in {BaseDirs, UsedDirs} /\ files \in {NoFiles, UsedFiles}
        /\ loaded # <<>> =>
              /\ \E n \in 1..Len(warnings) : IsWarning(warnings[n])
              /\ output_dir = FallbackRoot
        /\ \A p \in TouchedPaths :
              /\ \E n \in 1..Len(warnings) : IsWarning(warnings[n])
              /\ StartsWith(p, AbsRoot(FallbackRoot) \o "/")

\* the fallback root lies in the working directory and a batch has run there
C11_Witness ==
    /\ MarkerMissing
    /\ BatchDone
    /\ template_file = "case.spice"
    /\ "/w/SCH_Results/spice/case_ss_ll_mm_27C.spice" \in DOMAIN files

\* the other case of C11: cross_corners.py has raised on the missing marker
C11_WitnessRaised == MarkerMissing /\ pc = "raised" /\ variant = "corner"


\* the last operation of the driver so far was a simulator invocation
AfterInvocation == trace # <<>> /\ trace[Len(trace)][1] = "run"

\* C12: a failure of one work item's simulator invocation (nonzero exit, crash,
\* or the process cannot be started) does not abort the batch: after every
\* invocation the driver is still in its loop or has reached its normal end, and
\* at the normal end every work item has had its deck written and its invocation
C12_SimulatorFailureIsolated ==
    /\ AfterInvocation => pc \in {"loop", "returned"}
    /\ (pc \in {"returned", "raised"} /\ called # <<>>) =>
          /\ pc = "returned"
          /\ Len(called) = ItemCount
          /\ Cardinality(Writes) = ItemCount

\* the batch aborted by an invocation while work items were still to come
C12_Aborted ==
    /\ AfterInvocation
    /\ pc = "raised"
    /\ Len(called) < ItemCount


\* the deck of the n-th work item as generated from the template file's text alone
FreshDeck(n) ==
    IF variant = "temp"
    THEN generate_content_with_temp(file_text[1], Stem(template_file), NestedItem(n)[1],
                                    NestedItem(n)[2], output_dir)
    ELSE generate_content(file_text[1], Stem(template_file), NestedItem(n)[1], output_dir)

\* C13: execution is strictly sequential per work item: every simulator
\* invocation directly follows the write of its own deck, every deck write
\* follows the folder creation or a returned invocation (never another write),
\* the template text read at the start is never modified, and the deck on disk
\* when the simulator is invoked is the one generated from that text for the
\* item alone, whichever items were processed before it
C13_SequentialIndependent ==
    /\ \A n \in 1..Len(trace) :
          /\ trace[n][1] = "run" =>
                n > 1 /\ trace[n - 1] = <<"write", trace[n][2]>>
          /\ trace[n][1] = "write" =>
                n > 1 /\ trace[n - 1][1] \in {"mkdir", "run"}
    /\ Len(called) \in {Cardinality(Writes), Cardinality(Writes) - 1}
    /\ loaded # <<>> => loaded.content = file_text[1]
    /\ pc = "simulate" =>
          /\ trace[Len(trace)] = <<"write", Resolve(ItemSpice(k))>>
          /\ Len(called) = k - 1
          /\ files[Resolve(ItemSpice(k))] = FreshDeck(k)

\* a finished batch of several work items whose last deck is on disk as generated
C13_Witness ==
    /\ BatchDone
    /\ Len(called) >= 2
    /\ Cardinality(DeckFiles) = Len(called)
    /\ files[Resolve(ItemSpice(ItemCount))] = FreshDeck(ItemCount)

====
